---- MODULE Spec2Model ----
(***************************************************************************)
(* Pushbutton_Switch.ino: a momentary pushbutton, debounced in software,   *)
(* drives a load relay (pinL) and a PWM duty level (pinD).                 *)
(*                                                                         *)
(* One step of the model is one iteration of loop().  Its inputs are the   *)
(* level digitalRead(pinB) returns, the time that passed since the         *)
(* previous iteration, and the time that passes between the first and the  *)
(* second call of millis() inside the iteration.  Time is in milliseconds; *)
(* millis() is an unsigned counter of W bits.                              *)
(*                                                                         *)
(* The serial log and its column counter col do not influence the pins or  *)
(* the button state and are left out.                                      *)
(***************************************************************************)
EXTENDS Integers, Sequences, FiniteSets, TLC

\* ------------------------------------------------------------ constants

LOW  == 0
HIGH == 1

debounceDelay == 50          \* ms delay for debouncing button
shortLong     == 500         \* ms threshold between short/long presses
dutyS         == 4
duty          == <<255, 46, 1, 46>>   \* duty[i] of the sketch is duty[i+1]
bootDelay     == 3000        \* delay(3000) in setup()

\* ------------------------------------------------------------ bounds

W        == 13               \* width of the millis() counter in the model
Mod      == 2 ^ W
Granule  == 50               \* resolution of time in the free environment
Fine     == 10               \* resolution of time in the scripted environment
Horizon  == 1500             \* ms of free environment after boot

Steps       == {0, Granule, 2 * Granule, 7 * Granule}
Skews       == {0, Granule}
ScriptSteps == {0, Fine}
ScriptSkews == {0, Fine}
TrueCap     == 4 * shortLong \* true durations saturate here

VARIABLES
  clock,            \* the millisecond counter millis() reads
  buttonState,      \* raw button state
  buttonProcessed,  \* processed button state
  lastChange,       \* last raw change time
  buttonTime,       \* last debounced change time
  dutyI,            \* index for PWM array
  pinL,             \* level last written to the relay trigger
  pinD,             \* value last written to the PWM pin
  obs,              \* what the last iteration did and computed (history)
  sinceRaw,         \* true ms since the last raw change was seen (history)
  sinceEdge,        \* true ms since the raw change of the last committed
                    \* transition was seen (history)
  log,              \* the outputs after each committed release (history)
  downs,            \* number of committed presses (history)
  script,           \* scripted environment: phase durations, or <<>>
  envT              \* scripted environment: ms into the script

vars == <<clock, buttonState, buttonProcessed, lastChange, buttonTime, dutyI,
          pinL, pinD, obs, sinceRaw, sinceEdge, log, downs, script, envT>>

\* ------------------------------------------------------------ helpers

Min(a, b) == IF a < b THEN a ELSE b

\* the difference of two readings taken as plain integers
ElapsedNoWrap(a, b) == a - b

\* unsigned subtraction a - b in W bits
Elapsed(a, b) == (a - b + Mod) % Mod

\* unsigned addition in W bits
Plus(a, b) == (a + b) % Mod

\* x ^= 1
Toggle(x) == IF x = 1 THEN 0 ELSE 1

\* the comparison the wrong way round
SettledReversed(e) == e < debounceDelay

\* (millis() - lastChange) > debounceDelay
SettledLoose(e) == e >= debounceDelay
SettledSeconds(e) == e > debounceDelay * 1000
Settled(e) == e > debounceDelay

\* (millis() - buttonTime) < shortLong
ShortPressLoose(e) == e <= shortLong
ShortPress(e) == e < shortLong

\* a threshold smaller than the shift
GuardDueEager(e) == e > shortLong \div 2

\* (millis() - buttonTime) > (2 * shortLong)
GuardDue(e) == e > 2 * shortLong

\* dutyI = (dutyI + 1) % dutyS
NextDutyStuck(i) == i
NextDutySkip(i) == (i + 2) % dutyS
NextDuty(i) == (i + 1) % dutyS

\* duty[i]
DutyAtFirst(i) == duty[1]
DutyAt(i) == duty[i + 1]

\* pinMode(pinL, OUTPUT) leaves the output register at its reset value
InitPinLHigh == HIGH
InitPinL == LOW

\* digitalRead(pinL): the load is off when the trigger is HIGH
LoadIsOffInverted(l) == l = LOW
LoadIsOff(l) == l = HIGH

\* load on (when load off)
LoadOnResetsDuty ==
  /\ pinL' = LOW
  /\ dutyI' = 0
  /\ pinD' = duty[1]
LoadOn ==
  /\ pinL' = LOW
  /\ UNCHANGED <<dutyI, pinD>>

\* load off (load on and short press)
LoadOffResetsIndex ==
  /\ pinL' = HIGH
  /\ dutyI' = 0
  /\ UNCHANGED pinD
LoadOff ==
  /\ pinL' = HIGH
  /\ UNCHANGED <<dutyI, pinD>>

\* button down: just reporting; actions on button up
ButtonDownToggles ==
  /\ pinL' = Toggle(pinL)
  /\ UNCHANGED <<dutyI, pinD>>
ButtonDown == UNCHANGED <<dutyI, pinL, pinD>>

\* debounced button change: buttonProcessed != buttonState
DebouncedChangeInverted(p, s) == p = s
DebouncedChange(p, s) == p # s

\* the debounced change time: buttonTime = lastChange
ChangeTimeNow(now) == now
ChangeTime(now) == lastChange

\* change duty (load on and long press)
ChangeDuty ==
  /\ dutyI' = NextDuty(dutyI)
  /\ pinD' = DutyAt(dutyI')
  /\ UNCHANGED pinL

Sat(t) == Min(t, TrueCap)


\* ------------------------------------------------------------ initial state

InitProgram ==
  /\ clock = bootDelay % Mod
  /\ buttonState = HIGH
  /\ buttonProcessed = HIGH
  /\ lastChange = 0
  /\ buttonTime = 0
  /\ dutyI = 0
  /\ pinL = InitPinL
  /\ pinD = DutyAt(0)
  /\ obs = [event |-> "boot", settle |-> 0, elapsed |-> 0, rawAge |-> 0,
            held |-> 0]
  /\ sinceRaw = Sat(bootDelay)
  /\ sinceEdge = Sat(bootDelay)
  /\ log = <<>>
  /\ downs = 0

Init ==
  /\ InitProgram
  /\ script = <<>>
  /\ envT = 0

\* ------------------------------------------------------------ loop()

\* What an iteration reports: the branch it took, millis() - lastChange and
\* millis() - buttonTime as it computed them, the true time since the last
\* raw change at the debounce test, and the true time the button was down.
Obs(ev, settle, elapsed, rawAge, held) ==
  [event |-> ev, settle |-> settle, elapsed |-> elapsed, rawAge |-> rawAge,
   held |-> held]

\* What a committed release left on the outputs.
Entry(l, d, i) == [load |-> l, pwm |-> d, index |-> i]

\* One iteration of loop(): it starts dt ms after the previous one ended,
\* digitalRead(pinB) returns sample, the first millis() read (raw change or
\* debounce test) returns t1, and sk ms later the iteration ends; a second
\* millis() read (short/long or overflow test) returns t2.
Tick(dt, sample, sk) ==
  LET t1 == Plus(clock, dt)
      t2 == Plus(t1, sk)
      settle == Elapsed(t1, lastChange)
      e2 == Elapsed(t2, buttonTime)
      raw1 == Sat(sinceRaw + dt)
      edge1 == Sat(sinceEdge + dt)
  IN
  /\ clock' = t2
  /\ IF buttonState # sample THEN
       \* raw button change
       /\ buttonState' = Toggle(buttonState)
       /\ lastChange' = t1
       /\ sinceRaw' = sk
       /\ sinceEdge' = Sat(edge1 + sk)
       /\ obs' = Obs("raw", 0, 0, 0, 0)
       /\ UNCHANGED <<buttonProcessed, buttonTime, dutyI, pinL, pinD, log,
                      downs>>
     ELSE IF Settled(settle) THEN
       IF DebouncedChange(buttonProcessed, buttonState) THEN
         \* debounced button change
         /\ buttonProcessed' = buttonState
         /\ buttonTime' = ChangeTime(t1)
         /\ sinceRaw' = Sat(raw1 + sk)
         /\ sinceEdge' = Sat(raw1 + sk)
         /\ UNCHANGED <<buttonState, lastChange>>
         /\ IF buttonState = HIGH THEN
              \* button up
              IF LoadIsOff(pinL) THEN
                /\ LoadOn
                /\ obs' = Obs("on", settle, Elapsed(t1, buttonTime), raw1,
                              edge1 - raw1)
                /\ log' = Append(log, Entry(pinL', pinD', dutyI'))
                /\ UNCHANGED downs
              ELSE IF ShortPress(e2) THEN
                /\ LoadOff
                /\ obs' = Obs("off", settle, e2, raw1, edge1 - raw1)
                /\ log' = Append(log, Entry(pinL', pinD', dutyI'))
                /\ UNCHANGED downs
              ELSE
                /\ ChangeDuty
                /\ obs' = Obs("long", settle, e2, raw1, edge1 - raw1)
                /\ log' = Append(log, Entry(pinL', pinD', dutyI'))
                /\ UNCHANGED downs
            ELSE
              \* button down
              /\ ButtonDown
              /\ obs' = Obs("press", settle, 0, raw1, 0)
              /\ downs' = downs + 1
              /\ UNCHANGED log
       ELSE IF GuardDue(e2) THEN
         \* keep (millis() - times) from overflowing
         /\ buttonTime' = Plus(buttonTime, shortLong)
         /\ lastChange' = Plus(lastChange, shortLong)
         /\ sinceRaw' = Sat(raw1 + sk)
         /\ sinceEdge' = Sat(edge1 + sk)
         /\ obs' = Obs("guard", settle, e2, raw1, 0)
         /\ UNCHANGED <<buttonState, buttonProcessed, dutyI, pinL, pinD, log,
                        downs>>
       ELSE
         /\ sinceRaw' = Sat(raw1 + sk)
         /\ sinceEdge' = Sat(edge1 + sk)
         /\ obs' = Obs("idle", settle, e2, raw1, 0)
         /\ UNCHANGED <<buttonState, buttonProcessed, lastChange, buttonTime,
                        dutyI, pinL, pinD, log, downs>>
     ELSE
       \* recent raw change: do nothing
       /\ sinceRaw' = Sat(raw1 + sk)
       /\ sinceEdge' = Sat(edge1 + sk)
       /\ obs' = Obs("wait", settle, 0, raw1, 0)
       /\ UNCHANGED <<buttonState, buttonProcessed, lastChange, buttonTime,
                      dutyI, pinL, pinD, log, downs>>

\* loop() under a free environment: any level at any pace, for Horizon ms
Loop ==
  /\ \E dt \in Steps, sample \in {LOW, HIGH}, sk \in Skews :
       /\ clock + dt + sk <= bootDelay + Horizon
       /\ Tick(dt, sample, sk)
  /\ UNCHANGED <<script, envT>>

Next == Loop

Spec == Init /\ [][Next]_vars

\* ------------------------------------------------------------ scripted button

\* A script is the button's physical level over time: the durations of its
\* phases, released (HIGH) and pressed (LOW) in turn, starting released.  The
\* level of the last phase lasts for ever.
RECURSIVE LevelFrom(_, _, _)
LevelFrom(s, k, t) ==
  IF k >= Len(s) \/ t < s[k]
  THEN IF k % 2 = 1 THEN HIGH ELSE LOW
  ELSE LevelFrom(s, k + 1, t - s[k])

LevelAt(s, t) == LevelFrom(s, 1, t)

RECURSIVE Total(_)
Total(s) == IF s = <<>> THEN 0 ELSE Head(s) + Total(Tail(s))

\* the example scenario, after a first short press that turns the load off
Scenario == <<100, 100, 100, 100, 100, 100, 100, 100, 100, 700, 100, 700,
              100, 100, 100>>

\* long presses only
LongCycle == <<100, 600, 100, 1300, 100, 500, 100, 700, 100, 1100, 100, 600,
               100, 500, 100, 900, 100, 600, 100>>

\* a short press that bounces on the way down and on the way up, a glitch
\* while released, and a press that is still held when the script ends
BouncyDown == <<100, 10, 20, 20, 10, 300, 20, 10, 30, 10, 400, 30, 20, 300>>

\* a short press with a glitch after it, a long press that bounces on the
\* way up, and the button released when the script ends
BouncyUp == <<100, 200, 20, 30, 100, 1200, 10, 20, 200>>

Scripts == {Scenario, LongCycle, BouncyDown, BouncyUp}

\* the scripts in which the contact chatters while the button is held
ChatterFrom   == 4 * debounceDelay
ChatterOpen   == Fine
ChatterPeriod == debounceDelay - Fine
Chattering(s) == s = <<100, Mod + 100, 200>>

\* what digitalRead(pinB) returns t ms into the script
ButtonAt(s, t) ==
  IF /\ Chattering(s)
     /\ LevelAt(s, t) = LOW
     /\ t >= ChatterFrom
     /\ t % ChatterPeriod < ChatterOpen
  THEN HIGH
  ELSE LevelAt(s, t)

\* loop() with the scripted button sampled dt ms on
ScriptTick(dt, sk) ==
  /\ script # <<>>
  /\ envT + dt + sk <= Total(script)
  /\ Tick(dt, ButtonAt(script, envT + dt), sk)
  /\ envT' = envT + dt + sk
  /\ UNCHANGED script

\* loop() polled every 0..2*Fine ms until the script ends
ScriptLoop == \E dt \in ScriptSteps, sk \in ScriptSkews : ScriptTick(dt, sk)

\* an iteration in which the clock moves on
ScriptAdvance == \E sk \in ScriptSkews : ScriptTick(Fine, sk)

InitScript ==
  /\ InitProgram
  /\ script \in Scripts
  /\ envT = 0

SpecScript == InitScript /\ [][ScriptLoop]_vars

\* loop() keeps being called and millis() keeps counting while the script plays
SpecLive == SpecScript /\ WF_vars(ScriptAdvance)

\* ------------------------------------------------- scripts that wrap millis()

\* a short press turns the load off; the button then rests for more than the
\* full range of millis(), until a press whose raw change is seen just
\* before millis() wraps and which is committed just after
IdleGap  == 2 * Mod - bootDelay - 230
IdleWrap == <<100, 100, IdleGap, 100, 300>>

\* the button is held, with one glitch, for longer than the range of millis()
HoldWrap == <<100, 1000, 10, Mod, 200>>

\* the button is held for the range of millis(); after ChatterFrom ms the
\* contact opens for ChatterOpen ms in every ChatterPeriod ms until it is let
\* go, so it never rests for as long as debounceDelay
NoisyHold == <<100, Mod + 100, 200>>

WrapScripts == {IdleWrap, HoldWrap, NoisyHold}

InitWrap ==
  /\ InitProgram
  /\ script \in WrapScripts
  /\ envT = 0

\* loop() polled every Fine or 2*Fine ms until the script ends
WrapSteps == {Fine, 2 * Fine}
WrapLoop == \E dt \in WrapSteps : ScriptTick(dt, 0)

SpecWrap == InitWrap /\ [][WrapLoop]_vars

\* ------------------------------------------------------------ properties

\* a committed release, as an action
Release == buttonProcessed = LOW /\ buttonProcessed' = HIGH

\* a committed press, as an action
Press == buttonProcessed = HIGH /\ buttonProcessed' = LOW

\* the raw state differs from the processed state
Pending == buttonState # buttonProcessed

\* the last iteration committed a release
Released == obs.event \in {"on", "off", "long"}

\* C1: off-to-on always succeeds.  Whenever a release is committed while the
\* load is off (pinL HIGH), the load is turned on (pinL LOW), the PWM output
\* equals duty[dutyI] and dutyI is unchanged, whatever the held duration.
C1_OffToOn ==
  [][(Release /\ pinL = HIGH) =>
       (pinL' = LOW /\ pinD' = duty[dutyI' + 1] /\ dutyI' = dutyI)]_vars

\* a release held for shortLong or longer turned the load on at duty[1]
C1_Witness == obs.event = "on" /\ obs.held >= shortLong /\ dutyI = 1

\* C2: a short press turns the load off.  Whenever a release is committed
\* while the load is on and the button was down for less than shortLong,
\* measured from the raw change of the press to the raw change of the release,
\* the load is turned off and dutyI is unchanged.  Stated for the releases
\* that are committed by the first poll after the debounce window.
C2_ShortByHeldTime ==
  [][(/\ Release
      /\ pinL = LOW
      /\ obs'.held < shortLong
      /\ obs'.rawAge <= debounceDelay + Granule) =>
       (pinL' = HIGH /\ dutyI' = dutyI)]_vars

\* C3: a long press advances the duty level.  Whenever a release is committed
\* while the load is on and the held duration, as loop() computes it
\* (millis() - buttonTime), is shortLong or more, dutyI becomes
\* (dutyI + 1) mod dutyS, the PWM output becomes duty[dutyI] and the load
\* stays on; this includes a held duration of exactly shortLong.
C3_LongPressAdvances ==
  [][(Release /\ pinL = LOW /\ obs'.elapsed >= shortLong) =>
       (/\ dutyI' = (dutyI + 1) % dutyS
        /\ pinD' = duty[dutyI' + 1]
        /\ pinL' = LOW)]_vars

\* a release at exactly shortLong took the long branch
C3_Witness == obs.event = "long" /\ obs.elapsed = shortLong

\* C4: duty cycling is total and cyclic.  dutyI stays in 0..dutyS-1; under
\* long presses only, k releases after a release that left index i the index
\* is (i + k) mod dutyS and the PWM output is that entry of duty[], so dutyS
\* long presses bring both back.
C4_DutyCycle ==
  /\ dutyI \in 0 .. dutyS - 1
  /\ script = LongCycle =>
       /\ pinL = LOW
       /\ dutyI = Len(log) % dutyS
       /\ pinD = duty[dutyI + 1]
       /\ \A j \in 1 .. Len(log) :
            /\ log[j] = Entry(LOW, duty[(j % dutyS) + 1], j % dutyS)
            /\ \A i \in 1 .. j :
                 /\ log[j].index = (log[i].index + (j - i)) % dutyS
                 /\ j - i = dutyS => log[j] = log[i]

\* all nine long presses of the script were committed
C4_Witness == script = LongCycle /\ Len(log) = 2 * dutyS + 1

\* C5: debounce suppression.  An iteration changes buttonProcessed, the load,
\* dutyI or the PWM output only if it saw no raw change and the raw input has
\* truly been unchanged for more than debounceDelay; so a raw input that
\* never rests that long changes nothing.
C5_DebounceSuppression ==
  [][(\/ buttonProcessed' # buttonProcessed
      \/ pinL' # pinL
      \/ dutyI' # dutyI
      \/ pinD' # pinD) =>
       (buttonState' = buttonState /\ obs'.rawAge > debounceDelay)]_vars

\* a bounce went back uncommitted, more than 2 * shortLong after the last
\* committed transition
C5_Witness ==
  /\ obs.event = "raw"
  /\ buttonState = buttonProcessed
  /\ sinceEdge > 2 * shortLong
  /\ Len(log) >= 1

\* C6: single transition per physical edge.  While loop() keeps being polled
\* and the clock advances, a pending raw change does not stay pending, and a
\* raw input that finally holds a level has buttonProcessed finally hold that
\* level; a transition is committed only for a pending raw change that held,
\* it ends the pending state, and only a new raw change makes one pending
\* again.
C6_SingleTransition ==
  /\ Pending ~> ~Pending
  /\ \A v \in {LOW, HIGH} : <>[](buttonState = v) => <>[](buttonProcessed = v)
  /\ [][buttonProcessed' # buttonProcessed =>
          (Pending /\ buttonState' = buttonState /\ ~Pending')]_vars
  /\ [][(~Pending /\ Pending') => buttonState' # buttonState]_vars

\* the press still held when the script ends was committed, after the
\* bounces, the short press and the glitch before it
C6_Witness ==
  /\ script = BouncyDown
  /\ obs.event = "press"
  /\ Len(log) = 1
  /\ envT > Total(script) - 300

\* C7 (as amended): when loop() first runs the load is on (pinL LOW) with
\* dutyI = 0 and PWM duty[0] = 255, and the first committed release is
\* classified by its held duration like any release with the load on: below
\* shortLong it turns the load off, otherwise it advances the duty to
\* duty[1] = 46.
C7_InitialOn ==
  /\ obs.event = "boot" => (pinL = LOW /\ dutyI = 0 /\ pinD = duty[1])
  /\ (Released /\ Len(log) = 1) =>
       \/ /\ obs.event = "off"
          /\ obs.elapsed < shortLong
          /\ log[1] = Entry(HIGH, duty[1], 0)
       \/ /\ obs.event = "long"
          /\ obs.elapsed >= shortLong
          /\ log[1] = Entry(LOW, duty[2], 1)

\* the first release after power-up was a long press and advanced the duty
C7_Witness == obs.event = "long" /\ Len(log) = 1

\* C7 (as claimed): when loop() first runs the load is off and dutyI = 0, and
\* the first committed release turns the load on at duty[0] = 255.
C7_InitialOff ==
  /\ obs.event = "boot" => (pinL = HIGH /\ dutyI = 0)
  /\ Len(log) >= 1 => log[1] = Entry(LOW, duty[1], 0)

\* what the example scenario expects of a release: Off, or On with a PWM value
Off == 0 - 1
Outcome(e) == IF e.load = HIGH THEN Off ELSE e.pwm
ScenarioExpected == <<Off, 255, Off, 255, 46, 1, Off>>

\* C8: the example scenario.  From load off and dutyI = 0 (after the first
\* short press of the script), holds of 100, 100, 100, 700, 700 and 100 ms
\* give On at 255, Off, On at 255, On at 46, On at 1, Off, and every one of
\* them is committed by the end of the script.
C8_Scenario ==
  script = Scenario =>
    /\ Len(log) <= Len(ScenarioExpected)
    /\ \A k \in 1 .. Len(log) : Outcome(log[k]) = ScenarioExpected[k]
    /\ Len(log) >= 1 => log[1].index = 0
    /\ envT + 2 * Fine > Total(script) => Len(log) = Len(ScenarioExpected)

\* the scenario ran to its last release
C8_Witness == script = Scenario /\ Len(log) = Len(ScenarioExpected)

\* C9: the PWM output is zero whenever the load is off.
C9_PwmZeroWhenOff == pinL = HIGH => pinD = 0

\* C10: the duty index persists across off periods.  dutyI changes only in a
\* committed long-press release with the load on; no step in or out of the
\* off state, no committed press, raw change, overflow-guard or idle
\* iteration changes dutyI or the PWM output; so a release that turns the load
\* on again leaves the index and PWM value of the release that turned it off.
C10_DutyPersists ==
  /\ [][/\ dutyI' # dutyI =>
             (Release /\ pinL = LOW /\ pinL' = LOW /\ obs'.event = "long")
        /\ (pinL = HIGH \/ pinL' = HIGH) =>
             (dutyI' = dutyI /\ pinD' = pinD)
        /\ (Press \/ obs'.event \in {"raw", "wait", "guard", "idle"}) =>
             (dutyI' = dutyI /\ pinD' = pinD /\ pinL' = pinL)]_vars
  /\ [](\A k \in 1 .. Len(log) - 1 :
          log[k].load = HIGH =>
            /\ log[k + 1] = Entry(LOW, log[k].pwm, log[k].index)
            /\ log[k].pwm = duty[log[k].index + 1])

\* the load went on, to level 1, off and on again at level 1
C10_Witness ==
  /\ obs.event = "on"
  /\ Len(log) = 3
  /\ log[1] = Entry(LOW, duty[2], 1)
  /\ log[2] = Entry(HIGH, duty[2], 1)
  /\ log[3] = Entry(LOW, duty[2], 1)

\* C11: idle overflow safety.  While the raw input stays equal to
\* buttonProcessed, no iteration commits a transition or changes
\* buttonProcessed, the load, dutyI or the PWM output, however long the idle
\* time; in IdleWrap, where the button rests for more than the range of
\* millis() with the load off, exactly one press and one release are
\* committed before the rest, none during it, and the press and release
\* after it are committed once each and turn the load on.
C11_IdleOverflowSafe ==
  /\ [][(~Pending /\ buttonState' = buttonState) =>
         UNCHANGED <<buttonProcessed, pinL, dutyI, pinD, log, downs>>]_vars
  /\ [](script = IdleWrap =>
         /\ (envT >= 300 /\ envT <= 200 + IdleGap) =>
              /\ buttonProcessed = HIGH
              /\ downs = 1
              /\ log = <<Entry(HIGH, duty[1], 0)>>
         /\ envT + 2 * Fine > Total(script) =>
              /\ buttonProcessed = HIGH
              /\ downs = 2
              /\ log = <<Entry(HIGH, duty[1], 0), Entry(LOW, duty[1], 0)>>)

\* the press after the rest straddled the wrap of millis() and its release
\* turned the load on
C11_Witness ==
  /\ script = IdleWrap
  /\ envT > Mod
  /\ clock < bootDelay
  /\ obs.event = "on"
  /\ Len(log) = 2

Waiting == Pending /\ buttonState' = buttonState

\* C13 (as claimed): the debounce window is inclusive.  An iteration with no
\* raw change and the raw state different from buttonProcessed commits the
\* transition exactly when millis() - lastChange is debounceDelay or more,
\* so also at exactly 50 ms.
C13_InclusiveWindow ==
  [][Waiting =>
       (buttonProcessed' # buttonProcessed <=>
          obs'.settle >= debounceDelay)]_vars

\* C13: the debounce window is exclusive.  An iteration with no raw change
\* and the raw state different from buttonProcessed commits the transition
\* exactly when millis() - lastChange is more than debounceDelay: it does
\* not commit at exactly 50 ms and commits at 51 ms; millis() - lastChange is
\* then the true time since the raw change was seen.
C13_ExclusiveWindow ==
  [][Waiting =>
       /\ buttonProcessed' # buttonProcessed <=> obs'.settle > debounceDelay
       /\ obs'.settle = obs'.rawAge]_vars

\* an iteration exactly debounceDelay after the raw change did not commit
C13_Witness ==
  /\ obs.event = "wait"
  /\ obs.settle = debounceDelay
  /\ Pending

\* an iteration that commits a transition
Commit == buttonProcessed' # buttonProcessed

\* C14: buttonTime is the raw-change time.  After every commit buttonTime is
\* the value of lastChange, which is the clock value read by the iteration
\* that saw the most recent raw change (no guard shifted it since), and not
\* the clock of the committing iteration: at the commit buttonTime is behind
\* the clock by the true time since that raw change, more than debounceDelay.
C14_ButtonTimeIsRawChange ==
  [][Commit =>
       /\ buttonTime' = lastChange
       /\ lastChange' = lastChange
       /\ Elapsed(clock', buttonTime') = sinceRaw'
       /\ Elapsed(clock', buttonTime') >= obs'.rawAge
       /\ obs'.rawAge > debounceDelay
       /\ obs'.rawAge = obs'.settle]_vars

\* a press was committed later than the first moment it could have been
C14_Witness ==
  /\ obs.event = "press"
  /\ obs.rawAge > 2 * debounceDelay
  /\ Elapsed(clock, buttonTime) > obs.rawAge
  /\ Len(log) >= 1

\* C15: a transition is committed only for a settled raw state.  Every
\* iteration that changes buttonProcessed samples a raw input equal to the new
\* buttonProcessed, and the raw input has read the same on every iteration
\* since its last observed change, which is debounceDelay or more of real
\* time ago; this holds after the guard has shifted lastChange as well.
C15_CommitOnlySettled ==
  /\ [][Commit =>
         /\ Pending
         /\ buttonState' = buttonState
         /\ buttonProcessed' = buttonState'
         /\ obs'.rawAge >= debounceDelay
         /\ obs'.rawAge >= sinceRaw]_vars
  /\ [][buttonState' # buttonState => (sinceRaw' <= Granule /\ ~Commit)]_vars

\* a release committed after the guard had shifted lastChange and buttonTime
\* while the button was held
C15_Witness ==
  /\ Released
  /\ obs.elapsed < obs.held
  /\ obs.rawAge > debounceDelay

\* C16: the overflow guard does not alter classification.  With the load on
\* and loop() polled more often than the debounce window, a button held for
\* shortLong or more (also when the guard advanced buttonTime during the
\* hold, when glitches interrupted it, and when it lasted longer than the
\* range of millis()) is classified long at its release, never short.
C16_LongHoldIsLong ==
  [][(Release /\ pinL = LOW /\ obs'.held >= shortLong) =>
       (pinL' = LOW /\ dutyI' = NextDuty(dutyI))]_vars

\* C17 (as claimed): the timestamps are never ahead of the clock.  In every
\* reachable state buttonTime <= lastChange <= millis() in real time, so that
\* millis() - lastChange and millis() - buttonTime are true elapsed times.
\* (Under Spec millis() has not wrapped, so real time is the counter value.)
C17_NeverAhead == buttonTime <= lastChange /\ lastChange <= clock

\* an iteration on which the guard's conditions hold: no raw change, nothing
\* pending, the debounce window over and more than 2*shortLong since buttonTime
GuardTick ==
  /\ buttonState' = buttonState
  /\ ~Pending
  /\ obs'.settle > debounceDelay
  /\ obs'.elapsed > 2 * shortLong

\* C18: the frame of the overflow guard.  A guard iteration adds exactly
\* shortLong (mod 2^W) to buttonTime and to lastChange, so that
\* lastChange - buttonTime is preserved, and leaves buttonState,
\* buttonProcessed, the load, dutyI and the PWM output unchanged; the two
\* timestamps are shifted on no other iteration, so only when
\* millis() - buttonTime exceeds 2*shortLong.
C18_GuardFrame ==
  [][/\ GuardTick =>
          /\ buttonTime' = (buttonTime + shortLong) % Mod
          /\ lastChange' = (lastChange + shortLong) % Mod
          /\ Elapsed(lastChange', buttonTime') = Elapsed(lastChange, buttonTime)
          /\ UNCHANGED <<buttonState, buttonProcessed, pinL, dutyI, pinD>>
     /\ (buttonTime' # buttonTime /\ ~Commit) => GuardTick
     /\ (lastChange' # lastChange /\ buttonState' = buttonState) => GuardTick
    ]_vars

\* the guard has run while the button was held after an earlier release
C18_Witness ==
  /\ obs.event = "guard"
  /\ buttonProcessed = LOW
  /\ obs.elapsed > 2 * shortLong
  /\ Len(log) >= 1

\* C19: the action is on button up only.  An iteration that commits a press
\* changes buttonProcessed and buttonTime and leaves the load, dutyI and the
\* PWM output unchanged; the load changes only on an iteration that commits
\* a release; raw-change iterations and iterations that do nothing leave all
\* three outputs unchanged.
C19_ActionOnButtonUp ==
  [][/\ Press =>
          /\ buttonTime' = lastChange
          /\ UNCHANGED <<pinL, dutyI, pinD, log>>
     /\ pinL' # pinL => Release
     /\ ~Commit => UNCHANGED <<pinL, dutyI, pinD>>]_vars

\* a press has been committed with the load off and the duty at level 1
C19_Witness ==
  /\ obs.event = "press"
  /\ pinL = HIGH
  /\ dutyI = 1
  /\ downs = Len(log) + 1

\* C20: committed transitions strictly alternate, starting with a press.
\* The number of committed presses is the number of committed releases, plus
\* one while buttonProcessed is LOW, so every classified release follows a
\* committed press of its own; while that press is in force, buttonTime is
\* the time of its raw change plus the guard's shifts of shortLong, which is
\* the base of the classification at the release.
C20_Alternation ==
  /\ [](downs = Len(log) + (IF buttonProcessed = LOW THEN 1 ELSE 0))
  /\ []((buttonProcessed = LOW /\ sinceEdge < TrueCap) =>
          /\ sinceEdge >= Elapsed(clock, buttonTime)
          /\ (sinceEdge - Elapsed(clock, buttonTime)) % shortLong = 0)
  /\ [][Commit =>
         /\ (Press \/ Release)
         /\ Press <=> downs' = downs + 1
         /\ Release <=> Len(log') = Len(log) + 1]_vars

\* a press has been released after a hold during which the guard ran
C20_Witness ==
  /\ obs.event = "long"
  /\ downs = 1
  /\ Len(log) = 1
  /\ obs.held >= 2 * shortLong
  /\ obs.elapsed < obs.held

\* C21: the outputs stay consistent with the duty cursor.  In every reachable
\* state in which the load is on (pinL LOW) the value last written to the PWM
\* output is duty[dutyI], after any interleaving of toggles, long presses,
\* bounces and guard iterations; every change of dutyI writes the new
\* duty[dutyI] on the same iteration.
C21_PwmFollowsCursor ==
  /\ [](pinL = LOW => pinD = duty[dutyI + 1])
  /\ [](\A k \in 1 .. Len(log) :
          log[k].load = LOW => log[k].pwm = duty[log[k].index + 1])
  /\ [][dutyI' # dutyI => pinD' = duty[dutyI' + 1]]_vars

\* the load is on again at level 1 after a long press, an off and an on, and
\* the raw input has changed since
C21_Witness ==
  /\ obs.event = "raw"
  /\ pinL = LOW
  /\ dutyI = 1
  /\ Len(log) = 3
  /\ log[2].load = HIGH

====
